---------------------------- MODULE Spec2Model ----------------------------
(***************************************************************************)
(* Model of estoque_operacional/estqop.py: the three calculators           *)
(* (_NecessidadeTransferencia, _Divergencia, _QtdVendasPorCanal) as        *)
(* operators computed the way the code computes them, and the batch        *)
(* pipeline (_main, _gerar_resultado, the _salvar functions) as a state    *)
(* machine.                                                                *)
(* Model of senhas/senhas.py: _TipoSenha.gerar_senha as a state machine    *)
(* whose random draws and shuffle are nondeterministic choices.            *)
(***************************************************************************)
EXTENDS Integers, Sequences, FiniteSets, TLC

VARIABLES
    produtos,          \* tuple of _Produto loaded from produtos.txt
    vendas,            \* tuple of _Venda loaded from vendas.txt
    necessidades,      \* _NecessidadeTransferencia records produced so far
    divergencias,      \* _Divergencia records produced so far
    vendas_por_canal,  \* list returned by _QtdVendasPorCanal.multigerar
    gerados,           \* calculators whose result has been produced
    pc,                \* position of the pipeline (_main)
    arquivos,          \* file system: path -> Ausente or sequence of lines
    abertos,           \* paths with an open file handle
    pendentes,         \* groups the necessidades generator has not yet mapped
    cursor,            \* sales the divergencias generator has already scanned
    chamados,          \* calculators whose multigerar has been called
    tipo_senha,        \* senhas.py: the _TipoSenha gerar_senha is called on
    tamanho_senha,     \* senhas.py: the argument tamanho of gerar_senha
    senha              \* senhas.py: the list senha of gerar_senha

vars == <<produtos, vendas, necessidades, divergencias, vendas_por_canal,
          gerados, pc, arquivos, abertos, pendentes, cursor, chamados,
          tipo_senha, tamanho_senha, senha>>

\* The variables of senhas.py, which estqop.py never touches.
varsSenha == <<tipo_senha, tamanho_senha, senha>>

\* The variables of estqop.py other than pc, which senhas.py never touches.
varsEstoque == <<produtos, vendas, necessidades, divergencias,
                 vendas_por_canal, gerados, arquivos, abertos, pendentes,
                 cursor, chamados>>

(***************************************************************************)
(* Bounds of the model.                                                    *)
(***************************************************************************)
MaxProdutos == 2
MaxVendas == 2
MaxVendasCanal == 3

SeqAte(S, n) == UNION {[1..k -> S] : k \in 0..n}

(***************************************************************************)
(* Files.  A file is absent or holds a sequence of lines.  An input line   *)
(* is the sequence of its fields after split(';'); a field is decimal text *)
(* (num) or text int() rejects (txt).  An output line is the record the    *)
(* renderer was given; the fixed-column text of a line is not modelled.    *)
(***************************************************************************)
CAMINHO_ARQUIVO_PRODUTOS == "produtos.txt"
CAMINHO_ARQUIVO_VENDAS == "vendas.txt"
CAMINHO_ARQUIVO_TRANSFERENCIAS == "transfere.txt"
CAMINHO_ARQUIVO_DIVERGENCIAS == "divergencias.txt"
CAMINHO_ARQUIVO_VENDAS_POR_CANAL == "totcanais.txt"

Entradas == {CAMINHO_ARQUIVO_PRODUTOS, CAMINHO_ARQUIVO_VENDAS}
Saidas == {CAMINHO_ARQUIVO_TRANSFERENCIAS, CAMINHO_ARQUIVO_DIVERGENCIAS,
           CAMINHO_ARQUIVO_VENDAS_POR_CANAL}

Ausente == [existe |-> FALSE, linhas |-> <<>>]
Arquivo(ls) == [existe |-> TRUE, linhas |-> ls]
Linha(tipo, dado) == [tipo |-> tipo, dado |-> dado]

Num(n) == [num |-> n]
Txt(t) == [txt |-> t]

(***************************************************************************)
(* Python built-ins used by the calculators.                               *)
(***************************************************************************)
Max(a, b) == IF a >= b THEN a ELSE b
Abs(a) == IF a < 0 THEN -a ELSE a

RECURSIVE Soma(_)
Soma(s) == IF s = <<>> THEN 0 ELSE s[1] + Soma(Tail(s))

\* sorted(s, key=...): a stable sort, ascending by key; chaves[i] is the
\* key of s[i].
Sorted(s, chaves) ==
    LET n == Len(s)
        pos(i) == 1 + Cardinality({j \in 1..n :
                         \/ chaves[j] < chaves[i]
                         \/ chaves[j] = chaves[i] /\ j < i})
    IN [k \in 1..n |-> s[CHOOSE i \in 1..n : pos(i) = k]]

\* itertools.groupby(s, key=...): one (key, run) pair for every maximal run
\* of CONSECUTIVE elements with equal keys, in order of appearance;
\* chaves[i] is the key of s[i].
GroupBy(s, chaves) ==
    LET n == Len(s)
        inicios == {i \in 1..n : i = 1 \/ chaves[i] # chaves[i - 1]}
        inicio(k) == CHOOSE i \in inicios :
                         Cardinality({j \in inicios : j <= i}) = k
        fim(k) == IF k = Cardinality(inicios) THEN n ELSE inicio(k + 1) - 1
    IN [k \in 1..Cardinality(inicios) |->
           [chave |-> chaves[inicio(k)],
            itens |-> SubSeq(s, inicio(k), fim(k))]]

\* chain.from_iterable over a sequence of sequences.
RECURSIVE Chain(_)
Chain(ss) == IF ss = <<>> THEN <<>> ELSE ss[1] \o Chain(Tail(ss))

(***************************************************************************)
(* _SituacaoVenda and _CanalVenda.                                         *)
(***************************************************************************)
CONFIRMADA_PGTO_OK == 100
CONFIRMADA_PGTO_PENDENTE == 102
CANCELADA == 135
NAO_FINALIZADA == 190
ERRO_NAO_IDENTIFICADO == 999

SituacaoVenda == {CONFIRMADA_PGTO_OK, CONFIRMADA_PGTO_PENDENTE, CANCELADA,
                  NAO_FINALIZADA, ERRO_NAO_IDENTIFICADO}

\* Variant: only a paid sale counts as confirmed.
is_confirmada_so_pago(sit) == sit = CONFIRMADA_PGTO_OK

is_confirmada(sit) == sit \in {CONFIRMADA_PGTO_OK, CONFIRMADA_PGTO_PENDENTE}

msg_erro(sit) ==
    CASE sit = CANCELADA -> "Venda cancelada"
      [] sit = NAO_FINALIZADA -> "Venda não finalizada"
      [] sit = ERRO_NAO_IDENTIFICADO -> "Erro desconhecido. Acionar equipe de TI."
      [] OTHER -> "N/A"

REPR_COMERCIAL == 1
WEBSITE == 2
APP_ANDROID == 3
APP_IOS == 4

CanalVenda == {REPR_COMERCIAL, WEBSITE, APP_ANDROID, APP_IOS}

Produto(cod, est, min) ==
    [codigo |-> cod, qtd_estoque |-> est, qtd_min_co |-> min]

Venda(cod, q, sit, can) ==
    [cod_produto |-> cod, qtd |-> q, situacao |-> sit, canal |-> can]

VendasPorProduto(i, p, vs) == [index |-> i, produto |-> p, vendas |-> vs]

(***************************************************************************)
(* _NecessidadeTransferencia.multigerar                                    *)
(***************************************************************************)
NE_LO == 1
NE_HI == 10
NE_ESP == 10

\* Variant: the scan stops at the first product with the sale's code.
ParesDaVenda_primeiro(v, ps, i) ==
    LET ms == {j \in i..Len(ps) : v.cod_produto = ps[j].codigo}
        f == CHOOSE j \in ms : \A l \in ms : j <= l
    IN IF ms # {} /\ is_confirmada(v.situacao)
       THEN <<VendasPorProduto(f - 1, ps[f], <<v>>)>>
       ELSE <<>>

\* The pairs (sale, product) of the nested generator, sale-major: for v in
\* vendas, for i, p in enumerate(produtos), filtered; index is 0-based.
RECURSIVE ParesDaVenda(_, _, _)
ParesDaVenda(v, ps, i) ==
    IF i > Len(ps) THEN <<>>
    ELSE (IF v.cod_produto = ps[i].codigo /\ is_confirmada(v.situacao)
          THEN <<VendasPorProduto(i - 1, ps[i], <<v>>)>>
          ELSE <<>>) \o ParesDaVenda(v, ps, i + 1)

RECURSIVE Pares(_, _)
Pares(ps, vs) ==
    IF vs = <<>> THEN <<>>
    ELSE ParesDaVenda(vs[1], ps, 1) \o Pares(ps, Tail(vs))

\* The key= lambdas, applied to every element of the sequence.
ChaveCodigo(vps) == [k \in 1..Len(vps) |-> vps[k].produto.codigo]
ChaveGrupo(vps) ==
    [k \in 1..Len(vps) |->
        VendasPorProduto(vps[k].index, vps[k].produto, <<>>)]
ChaveIndex(vps) == [k \in 1..Len(vps) |-> vps[k].index]

vendas_produtos_raw(ps, vs) ==
    LET pares == Pares(ps, vs) IN Sorted(pares, ChaveCodigo(pares))

\* Variant: a group keeps the sale of its first pair only.
vendas_produtos_agrupados_primeira(ps, vs) ==
    LET raw == vendas_produtos_raw(ps, vs)
        gs == GroupBy(raw, ChaveGrupo(raw))
    IN [k \in 1..Len(gs) |->
           VendasPorProduto(gs[k].chave.index, gs[k].chave.produto,
                            gs[k].itens[1].vendas)]

vendas_produtos_agrupados(ps, vs) ==
    LET raw == vendas_produtos_raw(ps, vs)
        gs == GroupBy(raw, ChaveGrupo(raw))
    IN [k \in 1..Len(gs) |->
           VendasPorProduto(gs[k].chave.index, gs[k].chave.produto,
               Chain([j \in 1..Len(gs[k].itens) |-> gs[k].itens[j].vendas]))]

vendas_produtos_ordem_original(ps, vs) ==
    LET agrupados == vendas_produtos_agrupados(ps, vs)
    IN Sorted(agrupados, ChaveIndex(agrupados))

\* Variant: the lower limit is inclusive.
qtd_transf_arm_co_inclusivo(ne) ==
    IF NE_LO <= ne /\ ne < NE_HI THEN NE_ESP ELSE ne

\* Variant: the two comparisons are joined by "or".
qtd_transf_arm_co_ou(ne) == IF NE_LO < ne \/ ne < NE_HI THEN NE_ESP ELSE ne

qtd_transf_arm_co(ne) == IF NE_LO < ne /\ ne < NE_HI THEN NE_ESP ELSE ne

\* Variant: the need is the absolute difference, without the floor at zero.
NecessidadeTransferencia_sem_max(vp) ==
    LET qtd_vendas == Soma([j \in 1..Len(vp.vendas) |-> vp.vendas[j].qtd])
        est_pos_venda == vp.produto.qtd_estoque - qtd_vendas
        ne == Abs(vp.produto.qtd_min_co - est_pos_venda)
    IN [cod_produto |-> vp.produto.codigo,
        qtd_produto_co |-> vp.produto.qtd_estoque,
        qtd_min_produto_co |-> vp.produto.qtd_min_co,
        qtd_vendas |-> qtd_vendas,
        qtd_estoque_pos_vendas |-> est_pos_venda,
        qtd_necessidade |-> ne,
        qtd_transf_arm_co |-> qtd_transf_arm_co(ne)]

\* One element of the generator returned by multigerar.
NecessidadeTransferencia(vp) ==
    LET qtd_vendas == Soma([j \in 1..Len(vp.vendas) |-> vp.vendas[j].qtd])
        est_pos_venda == vp.produto.qtd_estoque - qtd_vendas
        ne == Abs(Max(vp.produto.qtd_min_co - est_pos_venda, 0))
    IN [cod_produto |-> vp.produto.codigo,
        qtd_produto_co |-> vp.produto.qtd_estoque,
        qtd_min_produto_co |-> vp.produto.qtd_min_co,
        qtd_vendas |-> qtd_vendas,
        qtd_estoque_pos_vendas |-> est_pos_venda,
        qtd_necessidade |-> ne,
        qtd_transf_arm_co |-> qtd_transf_arm_co(ne)]

NecessidadeTransferencia_multigerar(ps, vs) ==
    LET gs == vendas_produtos_ordem_original(ps, vs)
    IN [k \in 1..Len(gs) |-> NecessidadeTransferencia(gs[k])]

(***************************************************************************)
(* _Divergencia.multigerar                                                 *)
(***************************************************************************)
MSG_SEM_COD == "Código de Produto não encontrado"

Digito(d) == <<"0", "1", "2", "3", "4", "5", "6", "7", "8", "9">>[d + 1]

RECURSIVE Decimal(_)
Decimal(n) == IF n < 10 THEN Digito(n) ELSE Decimal(n \div 10) \o Digito(n % 10)

RECURSIVE Zeros(_)
Zeros(k) == IF k <= 0 THEN "" ELSE "0" \o Zeros(k - 1)

\* format(n, '05d'): sign first, then zeros up to a total width of 5.
Fmt05d(n) ==
    LET sinal == IF n < 0 THEN "-" ELSE ""
        d == Decimal(Abs(n))
    IN sinal \o Zeros(5 - Len(sinal) - Len(d)) \o d

s_produto(ps, v) == \A i \in 1..Len(ps) : ps[i].codigo # v.cod_produto

\* Variant: the status is looked at before the product code.
Divergencia_situacao_primeiro(ps, v, i) ==
    [num_linha_venda |-> i,
     msg_err |-> IF ~is_confirmada(v.situacao)
                 THEN msg_erro(v.situacao)
                 ELSE MSG_SEM_COD \o " " \o Fmt05d(v.cod_produto)]

Divergencia(ps, v, i) ==
    [num_linha_venda |-> i,
     msg_err |-> IF s_produto(ps, v)
                 THEN MSG_SEM_COD \o " " \o Fmt05d(v.cod_produto)
                 ELSE msg_erro(v.situacao)]

RECURSIVE Divergencia_desde(_, _, _)
Divergencia_desde(ps, vs, i) ==
    IF i > Len(vs) THEN <<>>
    ELSE (IF s_produto(ps, vs[i]) \/ ~is_confirmada(vs[i].situacao)
          THEN <<Divergencia(ps, vs[i], i)>>
          ELSE <<>>) \o Divergencia_desde(ps, vs, i + 1)

Divergencia_multigerar(ps, vs) == Divergencia_desde(ps, vs, 1)

(***************************************************************************)
(* _QtdVendasPorCanal.multigerar                                           *)
(***************************************************************************)
\* key=lambda v: v.canal and key=lambda vpc: vpc.canal, applied to every
\* element of the sequence.
ChaveCanal(xs) == [k \in 1..Len(xs) |-> xs[k].canal]

\* Variant: every sale is counted, confirmed or not.
QtdVendasPorCanal_multigerar_sem_filtro(vs) ==
    LET confirmadas == vs
        ordenadas == Sorted(confirmadas, ChaveCanal(confirmadas))
        gs == GroupBy(ordenadas, ChaveCanal(ordenadas))
        totais == [k \in 1..Len(gs) |->
                      [canal |-> gs[k].chave,
                       qtd_vendas |-> Soma([j \in 1..Len(gs[k].itens) |->
                                               gs[k].itens[j].qtd])]]
    IN Sorted(totais, ChaveCanal(totais))

\* Variant: groupby runs on the sales in file order.
QtdVendasPorCanal_multigerar_sem_ordenar(vs) ==
    LET confirmadas == SelectSeq(vs, LAMBDA v : is_confirmada(v.situacao))
        ordenadas == confirmadas
        gs == GroupBy(ordenadas, ChaveCanal(ordenadas))
        totais == [k \in 1..Len(gs) |->
                      [canal |-> gs[k].chave,
                       qtd_vendas |-> Soma([j \in 1..Len(gs[k].itens) |->
                                               gs[k].itens[j].qtd])]]
    IN Sorted(totais, ChaveCanal(totais))

\* sorted(groupby(sorted(confirmed sales, by canal), by canal), by canal)
QtdVendasPorCanal_multigerar(vs) ==
    LET confirmadas == SelectSeq(vs, LAMBDA v : is_confirmada(v.situacao))
        ordenadas == Sorted(confirmadas, ChaveCanal(confirmadas))
        gs == GroupBy(ordenadas, ChaveCanal(ordenadas))
        totais == [k \in 1..Len(gs) |->
                      [canal |-> gs[k].chave,
                       qtd_vendas |-> Soma([j \in 1..Len(gs[k].itens) |->
                                               gs[k].itens[j].qtd])]]
    IN Sorted(totais, ChaveCanal(totais))

(***************************************************************************)
(* Input domains.  Product code 1 and 2 may repeat in the product sequence *)
(* and a sale may name a code no product has.  With qtd_min_co 20 the      *)
(* stocks 20 and 50 and the quantities 1, 5, 40 (and their sums) give      *)
(* needs 0, 1, 2..9, 10 and above 10.                                      *)
(***************************************************************************)
ProdutosNec == {Produto(c, e, 20) : c \in {1, 2}, e \in {20, 50}}

VendasNec ==
    {Venda(c, q, s, WEBSITE) :
        c \in {1, 2}, q \in {1, 5, 40},
        s \in {CONFIRMADA_PGTO_OK, CONFIRMADA_PGTO_PENDENTE}}
    \cup {Venda(c, 5, CANCELADA, WEBSITE) : c \in {1, 2}}

ProdutosDiv == {Produto(c, 50, 20) : c \in {7, 123456}}

VendasDiv ==
    {Venda(c, 1, s, WEBSITE) : c \in {7, 999, 123456}, s \in SituacaoVenda}

VendasCanal ==
    {Venda(1, q, s, can) :
        q \in {1, 5}, s \in {CONFIRMADA_PGTO_OK, CANCELADA}, can \in CanalVenda}

ProdutosExcl == {Produto(c, 20, 20) : c \in {1, 2}}

VendasExcl ==
    {Venda(c, q, s, can) :
        c \in {1, 2}, q \in {5},
        s \in {CONFIRMADA_PGTO_OK, CONFIRMADA_PGTO_PENDENTE, CANCELADA,
               ERRO_NAO_IDENTIFICADO},
        can \in {REPR_COMERCIAL, APP_IOS}}

\* Any integer parses: stocks, minimums and sold quantities of either sign.
ProdutosInt == {Produto(1, e, m) : e \in {-5, 0, 5}, m \in {-3, 3}}

VendasInt ==
    {Venda(1, q, CONFIRMADA_PGTO_OK, WEBSITE) : q \in {-10, 0, 4, 10}}

VendasOrdem ==
    {Venda(c, 5, s, WEBSITE) : c \in {1, 2}, s \in {CONFIRMADA_PGTO_OK, CANCELADA}}
    \cup {Venda(3, 5, CONFIRMADA_PGTO_OK, APP_IOS)}

(***************************************************************************)
(* The calculators applied to loaded sequences.                            *)
(***************************************************************************)
\* senhas.py is not running.
SemSenha ==
    /\ tipo_senha = ""
    /\ tamanho_senha = 0
    /\ senha = <<>>

InitCalc ==
    /\ necessidades = <<>>
    /\ divergencias = <<>>
    /\ vendas_por_canal = <<>>
    /\ gerados = {}
    /\ pc = "calculadoras"
    /\ arquivos = [f \in Entradas \cup Saidas |-> Ausente]
    /\ abertos = {}
    /\ pendentes = <<>>
    /\ cursor = 0
    /\ chamados = {}
    /\ SemSenha

\* Variant: the sales are a one-shot iterator, which the cross-join sorted()
\* leaves exhausted for whoever reads it next.
ChamarNecessidades_consome ==
    /\ pc = "calculadoras"
    /\ "necessidades" \notin chamados
    /\ pendentes' = vendas_produtos_ordem_original(produtos, vendas)
    /\ chamados' = chamados \cup {"necessidades"}
    /\ vendas' = <<>>
    /\ UNCHANGED <<produtos, necessidades, divergencias, vendas_por_canal,
                   gerados, pc, arquivos, abertos, cursor>>
    /\ UNCHANGED varsSenha

\* _NecessidadeTransferencia.multigerar(produtos, vendas): both sorted()
\* calls run, the generator of records is returned.
ChamarNecessidades ==
    /\ pc = "calculadoras"
    /\ "necessidades" \notin chamados
    /\ pendentes' = vendas_produtos_ordem_original(produtos, vendas)
    /\ chamados' = chamados \cup {"necessidades"}
    /\ UNCHANGED <<produtos, vendas, necessidades, divergencias,
                   vendas_por_canal, gerados, pc, arquivos, abertos, cursor>>
    /\ UNCHANGED varsSenha

\* next() on the generator of necessidades: the record of the next group,
\* or the end of the iteration.
ProximaNecessidade ==
    /\ pc = "calculadoras"
    /\ "necessidades" \in chamados
    /\ "necessidades" \notin gerados
    /\ IF pendentes # <<>>
       THEN /\ necessidades' = Append(necessidades,
                                   NecessidadeTransferencia(Head(pendentes)))
            /\ pendentes' = Tail(pendentes)
            /\ UNCHANGED gerados
       ELSE /\ gerados' = gerados \cup {"necessidades"}
            /\ UNCHANGED <<necessidades, pendentes>>
    /\ UNCHANGED <<produtos, vendas, divergencias, vendas_por_canal, pc,
                   arquivos, abertos, cursor, chamados>>
    /\ UNCHANGED varsSenha

\* _Divergencia.multigerar(produtos, vendas): the generator is returned,
\* nothing is scanned yet.
ChamarDivergencias ==
    /\ pc = "calculadoras"
    /\ "divergencias" \notin chamados
    /\ cursor' = 0
    /\ chamados' = chamados \cup {"divergencias"}
    /\ UNCHANGED <<produtos, vendas, necessidades, divergencias,
                   vendas_por_canal, gerados, pc, arquivos, abertos,
                   pendentes>>
    /\ UNCHANGED varsSenha

\* next() on the generator of divergencias: the scan goes on to the next
\* flagged sale, or to the end of the sales.
ProximaDivergencia ==
    /\ pc = "calculadoras"
    /\ "divergencias" \in chamados
    /\ "divergencias" \notin gerados
    /\ LET flagradas ==
               {i \in (cursor + 1)..Len(vendas) :
                   s_produto(produtos, vendas[i])
                       \/ ~is_confirmada(vendas[i].situacao)}
       IN IF flagradas # {}
          THEN LET i == CHOOSE i \in flagradas : \A j \in flagradas : i <= j
               IN /\ divergencias' =
                         Append(divergencias,
                                Divergencia(produtos, vendas[i], i))
                  /\ cursor' = i
                  /\ UNCHANGED gerados
          ELSE /\ cursor' = Len(vendas)
               /\ gerados' = gerados \cup {"divergencias"}
               /\ UNCHANGED divergencias
    /\ UNCHANGED <<produtos, vendas, necessidades, vendas_por_canal, pc,
                   arquivos, abertos, pendentes, chamados>>
    /\ UNCHANGED varsSenha

\* _QtdVendasPorCanal.multigerar(vendas): the list is built in the call.
GerarVendasPorCanal ==
    /\ pc = "calculadoras"
    /\ "vendas_por_canal" \notin gerados
    /\ vendas_por_canal' = QtdVendasPorCanal_multigerar(vendas)
    /\ gerados' = gerados \cup {"vendas_por_canal"}
    /\ UNCHANGED <<produtos, vendas, necessidades, divergencias, pc,
                   arquivos, abertos, pendentes, cursor>>
    /\ chamados' = chamados \cup {"vendas_por_canal"}
    /\ UNCHANGED varsSenha

InitNec ==
    /\ produtos \in SeqAte(ProdutosNec, MaxProdutos)
    /\ vendas \in SeqAte(VendasNec, MaxVendas)
    /\ InitCalc

NextNec == ChamarNecessidades \/ ProximaNecessidade

SpecNec == InitNec /\ [][NextNec]_vars

InitDiv ==
    /\ produtos \in SeqAte(ProdutosDiv, MaxProdutos)
    /\ vendas \in SeqAte(VendasDiv, MaxVendas)
    /\ InitCalc

NextDiv == ChamarDivergencias \/ ProximaDivergencia

SpecDiv == InitDiv /\ [][NextDiv]_vars

InitCanal ==
    /\ produtos = <<>>
    /\ vendas \in SeqAte(VendasCanal, MaxVendasCanal)
    /\ InitCalc

SpecCanal == InitCanal /\ [][GerarVendasPorCanal]_vars

InitExcl ==
    /\ produtos \in SeqAte(ProdutosExcl, MaxProdutos)
    /\ vendas \in SeqAte(VendasExcl, MaxVendas)
    /\ InitCalc

NextExcl ==
    \/ ChamarNecessidades
    \/ ProximaNecessidade
    \/ GerarVendasPorCanal

SpecExcl == InitExcl /\ [][NextExcl]_vars

(***************************************************************************)
(* The calculators called in any order, the two generators consumed one    *)
(* record at a time, in any interleaving with the other calls.             *)
(***************************************************************************)
InitOrdem ==
    /\ produtos \in SeqAte(ProdutosExcl, MaxProdutos)
    /\ vendas \in SeqAte(VendasOrdem, MaxVendas)
    /\ InitCalc

NextOrdem ==
    \/ ChamarNecessidades
    \/ ProximaNecessidade
    \/ ChamarDivergencias
    \/ ProximaDivergencia
    \/ GerarVendasPorCanal

SpecOrdem == InitOrdem /\ [][NextOrdem]_vars

InitInt ==
    /\ produtos \in SeqAte(ProdutosInt, MaxProdutos)
    /\ vendas \in SeqAte(VendasInt, MaxVendas)
    /\ InitCalc

SpecInt == InitInt /\ [][NextNec]_vars


(***************************************************************************)
(* Vocabulary of the properties, stated on the loaded sequences.           *)
(***************************************************************************)
Confirmada(v) == v.situacao \in {100, 102}
TemProduto(v) == \E i \in 1..Len(produtos) : produtos[i].codigo = v.cod_produto
ConfirmadasDoCodigo(c) ==
    SelectSeq(vendas, LAMBDA v : Confirmada(v) /\ v.cod_produto = c)
QtdTotal(vs) == Soma([j \in 1..Len(vs) |-> vs[j].qtd])
QtdVendasTotal(ns) == Soma([j \in 1..Len(ns) |-> ns[j].qtd_vendas])
EntradasDoCodigo(c) == {i \in 1..Len(produtos) : produtos[i].codigo = c}
\* The TransferNeed records that carry the fields of product entry p.
RegistrosDe(p) ==
    SelectSeq(necessidades,
              LAMBDA n : /\ n.cod_produto = p.codigo
                         /\ n.qtd_produto_co = p.qtd_estoque
                         /\ n.qtd_min_produto_co = p.qtd_min_co)
GerouNec == "necessidades" \in gerados
GerouDiv == "divergencias" \in gerados
GerouCanal == "vendas_por_canal" \in gerados
SemVenda(vs, i) == SubSeq(vs, 1, i - 1) \o SubSeq(vs, i + 1, Len(vs))

(***************************************************************************)
(* C1.  As stated: every emitted TransferNeed with 0 < rawNeed < 10 has    *)
(* transferQty 10, rawNeed 1 included.                                     *)
(***************************************************************************)
C1_PequenaNecessidadeViraDez ==
    GerouNec =>
        \A k \in 1..Len(necessidades) :
            (0 < necessidades[k].qtd_necessidade
                /\ necessidades[k].qtd_necessidade < 10)
            => necessidades[k].qtd_transf_arm_co = 10

\* C1 as amended: every emitted TransferNeed with 1 < rawNeed < 10 has
\* transferQty 10, and one with rawNeed 1 has transferQty 1 (not rounded).
C1_DoisANoveViraDez ==
    GerouNec =>
        \A k \in 1..Len(necessidades) :
            /\ (1 < necessidades[k].qtd_necessidade
                   /\ necessidades[k].qtd_necessidade < 10)
               => necessidades[k].qtd_transf_arm_co = 10
            /\ necessidades[k].qtd_necessidade = 1
               => necessidades[k].qtd_transf_arm_co = 1

C1_Witness ==
    /\ GerouNec
    /\ Len(necessidades) = 2
    /\ necessidades[1].cod_produto # necessidades[2].cod_produto
    /\ necessidades[1].qtd_necessidade = 1
    /\ necessidades[2].qtd_necessidade \in 2..9

(***************************************************************************)
(* C2.  Every emitted TransferNeed has transferQty 10 if 1 < rawNeed < 10  *)
(* and transferQty = rawNeed otherwise (0 stays 0, 10 and above pass).     *)
(***************************************************************************)
C2_RegraDeLote ==
    GerouNec =>
        \A k \in 1..Len(necessidades) :
            LET ne == necessidades[k].qtd_necessidade
            IN necessidades[k].qtd_transf_arm_co =
                   IF 1 < ne /\ ne < 10 THEN 10 ELSE ne

C2_Witness ==
    /\ GerouNec
    /\ \E k \in 1..Len(necessidades) :
           /\ necessidades[k].qtd_necessidade = 10
           /\ necessidades[k].qtd_transf_arm_co = 10
    /\ \E k \in 1..Len(necessidades) :
           /\ necessidades[k].qtd_necessidade = 0
           /\ necessidades[k].qtd_transf_arm_co = 0

(***************************************************************************)
(* C3.  As stated: with repeated product codes every TransferNeed carries  *)
(* the fields of the FIRST product entry with its code and all confirmed   *)
(* sales of that code; nothing is emitted for a later entry.               *)
(***************************************************************************)
C3_SomentePrimeiraEntrada ==
    GerouNec =>
        \A i \in 1..Len(produtos) :
            LET c == produtos[i].codigo
                f == CHOOSE j \in EntradasDoCodigo(c) :
                         \A l \in EntradasDoCodigo(c) : j <= l
                doCodigo == SelectSeq(necessidades,
                                      LAMBDA n : n.cod_produto = c)
            IN /\ \A k \in 1..Len(doCodigo) :
                      /\ doCodigo[k].qtd_produto_co = produtos[f].qtd_estoque
                      /\ doCodigo[k].qtd_min_produto_co
                             = produtos[f].qtd_min_co
               /\ QtdVendasTotal(doCodigo) = QtdTotal(ConfirmadasDoCodigo(c))

\* C3 as amended: every confirmed sale of a code is attached to EVERY
\* product entry with that code: each entry whose code has a confirmed sale
\* gets a TransferNeed, later duplicates included, and the quantities
\* attached to the entries equal to p add up to the confirmed sales of the
\* code once per such entry.
C3_TodasAsEntradas ==
    GerouNec =>
        \A i \in 1..Len(produtos) :
            LET p == produtos[i]
                iguais == {j \in 1..Len(produtos) : produtos[j] = p}
                cs == ConfirmadasDoCodigo(p.codigo)
            IN /\ cs # <<>> => RegistrosDe(p) # <<>>
               /\ QtdVendasTotal(RegistrosDe(p))
                      = Cardinality(iguais) * QtdTotal(cs)

C3_Witness ==
    /\ GerouNec
    /\ Len(produtos) = 2
    /\ produtos[1].codigo = produtos[2].codigo
    /\ produtos[1].qtd_estoque # produtos[2].qtd_estoque
    /\ Len(vendas) = 1
    /\ Len(necessidades) = 2
    /\ necessidades[2].qtd_produto_co = produtos[2].qtd_estoque
    /\ necessidades[2].qtd_vendas = vendas[1].qtd

(***************************************************************************)
(* C4.  As stated: the totalSoldQty of all TransferNeed records add up to  *)
(* the quantities of the confirmed sales that match some product, each     *)
(* sale counted once.                                                      *)
(***************************************************************************)
C4_CadaVendaUmaVez ==
    GerouNec =>
        QtdVendasTotal(necessidades)
            = QtdTotal(SelectSeq(vendas,
                                 LAMBDA v : Confirmada(v) /\ TemProduto(v)))

\* C4 as amended: the totalSoldQty of all TransferNeed records add up to
\* the quantities of the confirmed sales, each counted once for every
\* product entry that has its code (so once when the code is not repeated).
C4_UmaVezPorEntrada ==
    GerouNec =>
        QtdVendasTotal(necessidades)
            = Soma([j \in 1..Len(vendas) |->
                       IF Confirmada(vendas[j])
                       THEN vendas[j].qtd
                            * Cardinality(EntradasDoCodigo(vendas[j].cod_produto))
                       ELSE 0])

C4_Witness ==
    /\ GerouNec
    /\ Len(produtos) = 2
    /\ produtos[1].codigo # produtos[2].codigo
    /\ Len(vendas) = 2
    /\ vendas[1].cod_produto = vendas[2].cod_produto
    /\ Confirmada(vendas[1]) /\ Confirmada(vendas[2])
    /\ TemProduto(vendas[1])
    /\ Len(necessidades) = 1
    /\ necessidades[1].qtd_vendas = vendas[1].qtd + vendas[2].qtd


(***************************************************************************)
(* C5.  The Divergence list has line number i exactly for the sales i that *)
(* name a code no product has or have a non-confirmed status, each once    *)
(* and in ascending order; a matched sale with status 100 or 102 never     *)
(* appears.                                                                *)
(***************************************************************************)
C5_LinhasDivergentes ==
    GerouDiv =>
        /\ \A k \in 1..Len(divergencias) - 1 :
               divergencias[k].num_linha_venda
                   < divergencias[k + 1].num_linha_venda
        /\ {divergencias[k].num_linha_venda : k \in 1..Len(divergencias)}
               = {i \in 1..Len(vendas) :
                     ~TemProduto(vendas[i]) \/ ~Confirmada(vendas[i])}

C5_Witness ==
    /\ GerouDiv
    /\ Len(vendas) = 2
    /\ TemProduto(vendas[1]) /\ vendas[1].situacao = 102
    /\ TemProduto(vendas[2]) /\ vendas[2].situacao = 190
    /\ Len(divergencias) = 1
    /\ divergencias[1].num_linha_venda = 2

(***************************************************************************)
(* C6.  The message of a Divergence is the code-not-found message whenever *)
(* the sale's code matches no product, whatever the status; only for a     *)
(* matched sale is it the error string of the non-confirmed status.        *)
(***************************************************************************)
MsgSemCodigoEsperada(cod) ==
    CASE cod = 7 -> "Código de Produto não encontrado 00007"
      [] cod = 999 -> "Código de Produto não encontrado 00999"
      [] cod = 123456 -> "Código de Produto não encontrado 123456"

MsgSituacaoEsperada(sit) ==
    CASE sit = 135 -> "Venda cancelada"
      [] sit = 190 -> "Venda não finalizada"
      [] sit = 999 -> "Erro desconhecido. Acionar equipe de TI."

C6_MensagemSemCodigoPrimeiro ==
    GerouDiv =>
        \A k \in 1..Len(divergencias) :
            LET v == vendas[divergencias[k].num_linha_venda]
            IN divergencias[k].msg_err =
                   IF TemProduto(v) THEN MsgSituacaoEsperada(v.situacao)
                   ELSE MsgSemCodigoEsperada(v.cod_produto)

C6_Witness ==
    /\ GerouDiv
    /\ Len(produtos) = 1 /\ produtos[1].codigo = 123456
    /\ Len(vendas) = 2
    /\ vendas[1].cod_produto = 7 /\ vendas[1].situacao = 135
    /\ vendas[2].cod_produto = 123456 /\ vendas[2].situacao = 999
    /\ Len(divergencias) = 2
    /\ divergencias[1].msg_err = "Código de Produto não encontrado 00007"
    /\ divergencias[2].msg_err = "Erro desconhecido. Acionar equipe de TI."

(***************************************************************************)
(* C7.  As stated: a sale whose code matches no product contributes to no  *)
(* TransferNeed and to no ChannelTotal, whatever its status: without that  *)
(* sale both calculators return what they returned with it.                *)
(***************************************************************************)
C7_VendaSemProdutoNaoConta ==
    (GerouNec /\ GerouCanal) =>
        \A i \in 1..Len(vendas) :
            ~TemProduto(vendas[i]) =>
                /\ NecessidadeTransferencia_multigerar(produtos,
                       SemVenda(vendas, i)) = necessidades
                /\ QtdVendasPorCanal_multigerar(SemVenda(vendas, i))
                       = vendas_por_canal

\* C7 as amended: a sale whose code matches no product contributes to no
\* TransferNeed, whatever its status, and to no ChannelTotal when its
\* status is not confirmed (a confirmed one counts in its channel's total).
C7_SemProdutoForaDasNecessidades ==
    (GerouNec /\ GerouCanal) =>
        \A i \in 1..Len(vendas) :
            ~TemProduto(vendas[i]) =>
                /\ NecessidadeTransferencia_multigerar(produtos,
                       SemVenda(vendas, i)) = necessidades
                /\ ~Confirmada(vendas[i]) =>
                       QtdVendasPorCanal_multigerar(SemVenda(vendas, i))
                           = vendas_por_canal

C7_Witness ==
    /\ GerouNec /\ GerouCanal
    /\ Len(vendas) = 2
    /\ TemProduto(vendas[1]) /\ Confirmada(vendas[1])
    /\ ~TemProduto(vendas[2]) /\ vendas[2].situacao = 135
    /\ vendas[1].canal = vendas[2].canal
    /\ Len(necessidades) = 1
    /\ vendas_por_canal
           = <<[canal |-> vendas[1].canal, qtd_vendas |-> vendas[1].qtd]>>

(***************************************************************************)
(* C8.  There is exactly one ChannelTotal for each channel with at least   *)
(* one confirmed sale and none for another channel, its totalQty is the    *)
(* sum of the confirmed quantities of the channel, the list ascends by     *)
(* channel value, and the totals add up to all the confirmed quantities.   *)
(***************************************************************************)
ConfirmadasDoCanal(can) ==
    SelectSeq(vendas, LAMBDA v : Confirmada(v) /\ v.canal = can)

C8_TotaisPorCanal ==
    GerouCanal =>
        /\ \A k \in 1..Len(vendas_por_canal) - 1 :
               vendas_por_canal[k].canal < vendas_por_canal[k + 1].canal
        /\ {vendas_por_canal[k].canal : k \in 1..Len(vendas_por_canal)}
               = {can \in 1..4 : ConfirmadasDoCanal(can) # <<>>}
        /\ \A k \in 1..Len(vendas_por_canal) :
               vendas_por_canal[k].qtd_vendas
                   = QtdTotal(ConfirmadasDoCanal(vendas_por_canal[k].canal))
        /\ Soma([k \in 1..Len(vendas_por_canal) |->
                    vendas_por_canal[k].qtd_vendas])
               = QtdTotal(SelectSeq(vendas, Confirmada))

C8_Witness ==
    /\ GerouCanal
    /\ Len(vendas) = 3
    /\ vendas[1].canal = 4 /\ vendas[2].canal = 1 /\ vendas[3].canal = 4
    /\ \A i \in 1..3 : Confirmada(vendas[i])
    /\ vendas[1].qtd # vendas[3].qtd
    /\ Len(vendas_por_canal) = 2
    /\ vendas_por_canal[1].canal = 1
    /\ vendas_por_canal[2] = [canal |-> 4, qtd_vendas |-> 6]

(***************************************************************************)
(* C10.  There is exactly one TransferNeed for each product position that  *)
(* has a confirmed sale with its code and none for another position, in    *)
(* ascending order of position.                                            *)
(***************************************************************************)
PosicoesComVenda ==
    {i \in 1..Len(produtos) : ConfirmadasDoCodigo(produtos[i].codigo) # <<>>}

C10_UmRegistroPorPosicao ==
    GerouNec =>
        /\ Len(necessidades) = Cardinality(PosicoesComVenda)
        /\ \A k \in 1..Len(necessidades) :
               LET i == CHOOSE i \in PosicoesComVenda :
                            Cardinality({j \in PosicoesComVenda : j <= i}) = k
               IN /\ necessidades[k].cod_produto = produtos[i].codigo
                  /\ necessidades[k].qtd_produto_co = produtos[i].qtd_estoque
                  /\ necessidades[k].qtd_min_produto_co
                         = produtos[i].qtd_min_co


(***************************************************************************)
(* The batch pipeline: _main, _gerar_resultado and the _salvar functions.  *)
(***************************************************************************)
MaxLinhasProdutos == 2
MaxLinhasVendas == 2

LinhasProdutos ==
    {<<Num(1), Num(20), Num(20)>>, <<Num(2), Num(50), Num(20)>>,
     <<Num(1), Num(20)>>, <<Num(1), Txt("x"), Num(20)>>}

LinhasVendas ==
    {<<Num(c), Num(5), Num(s), Num(WEBSITE)>> :
        c \in {1, 3}, s \in {CONFIRMADA_PGTO_OK, CANCELADA}}
    \cup {<<Num(1), Num(5), Num(CONFIRMADA_PGTO_OK)>>,
          <<Num(1), Txt("x"), Num(CONFIRMADA_PGTO_OK), Num(WEBSITE)>>,
          <<Num(1), Num(5), Num(101), Num(WEBSITE)>>,
          <<Num(1), Num(5), Num(CONFIRMADA_PGTO_OK), Num(5)>>}

LinhaAnterior == Linha("anterior", <<>>)

InitMain ==
    /\ \E ap \in {Ausente} \cup {Arquivo(ls) :
                      ls \in SeqAte(LinhasProdutos, MaxLinhasProdutos)},
          av \in {Ausente} \cup {Arquivo(ls) :
                      ls \in SeqAte(LinhasVendas, MaxLinhasVendas)},
          sai \in {Ausente, Arquivo(<<LinhaAnterior>>)} :
           arquivos = [f \in Entradas \cup Saidas |->
                          IF f = CAMINHO_ARQUIVO_PRODUTOS THEN ap
                          ELSE IF f = CAMINHO_ARQUIVO_VENDAS THEN av
                          ELSE sai]
    /\ produtos = <<>>
    /\ vendas = <<>>
    /\ necessidades = <<>>
    /\ divergencias = <<>>
    /\ vendas_por_canal = <<>>
    /\ gerados = {}
    /\ pc = "inicio"
    /\ abertos = {}
    /\ pendentes = <<>>
    /\ cursor = 0
    /\ chamados = {}
    /\ SemSenha

\* int(campo) succeeds.
EhInt(campo) == "num" \in DOMAIN campo

\* The row unpacks into three names and every int() succeeds.
ProdutoValido(l) == Len(l) = 3 /\ \A j \in 1..3 : EhInt(l[j])

\* The row unpacks into four names, every int() succeeds and both enum
\* constructors find the value.
VendaValida(l) ==
    /\ Len(l) = 4
    /\ \A j \in 1..4 : EhInt(l[j])
    /\ l[3].num \in SituacaoVenda
    /\ l[4].num \in CanalVenda

\* _garantir_arquivos_entrada
garantir_arquivos_entrada == \A f \in Entradas : arquivos[f].existe

\* _main up to the file check at the start of _gerar_resultado: None is
\* returned, and _main returns, when an input file is missing.
GarantirArquivos ==
    /\ pc = "inicio"
    /\ pc' = IF garantir_arquivos_entrada THEN "abrir" ELSE "sem_arquivos"
    /\ UNCHANGED <<produtos, vendas, necessidades, divergencias,
                   vendas_por_canal, gerados, arquivos, abertos, pendentes,
                   cursor>>
    /\ UNCHANGED <<chamados, tipo_senha, tamanho_senha, senha>>

\* with (produtos.txt.open() as arq_produtos, vendas.txt.open() as arq_vendas)
AbrirEntradas ==
    /\ pc = "abrir"
    /\ abertos' = abertos \cup Entradas
    /\ pc' = "ler_produtos"
    /\ UNCHANGED <<produtos, vendas, necessidades, divergencias,
                   vendas_por_canal, gerados, arquivos, pendentes, cursor>>
    /\ UNCHANGED <<chamados, tipo_senha, tamanho_senha, senha>>

\* produtos = tuple(...): a row that does not parse raises, the with block
\* closes both inputs and the exception leaves _gerar_resultado and _main.
LerProdutos ==
    /\ pc = "ler_produtos"
    /\ LET ls == arquivos[CAMINHO_ARQUIVO_PRODUTOS].linhas
       IN IF \A k \in 1..Len(ls) : ProdutoValido(ls[k])
          THEN /\ produtos' = [k \in 1..Len(ls) |->
                                  Produto(ls[k][1].num, ls[k][2].num,
                                          ls[k][3].num)]
               /\ pc' = "ler_vendas"
               /\ UNCHANGED abertos
          ELSE /\ pc' = "erro"
               /\ abertos' = abertos \ Entradas
               /\ UNCHANGED produtos
    /\ UNCHANGED <<vendas, necessidades, divergencias, vendas_por_canal,
                   gerados, arquivos, pendentes, cursor>>
    /\ UNCHANGED <<chamados, tipo_senha, tamanho_senha, senha>>

\* Variant: a row that does not parse is skipped and loading goes on.
LerVendas_ignora_invalidas ==
    /\ pc = "ler_vendas"
    /\ LET ls == SelectSeq(arquivos[CAMINHO_ARQUIVO_VENDAS].linhas,
                           VendaValida)
       IN vendas' = [k \in 1..Len(ls) |->
                        Venda(ls[k][1].num, ls[k][2].num,
                              ls[k][3].num, ls[k][4].num)]
    /\ pc' = "calc_necessidades"
    /\ UNCHANGED <<produtos, necessidades, divergencias, vendas_por_canal,
                   gerados, arquivos, abertos, pendentes, cursor>>
    /\ UNCHANGED <<chamados, tipo_senha, tamanho_senha, senha>>

\* vendas = tuple(...)
LerVendas ==
    /\ pc = "ler_vendas"
    /\ LET ls == arquivos[CAMINHO_ARQUIVO_VENDAS].linhas
       IN IF \A k \in 1..Len(ls) : VendaValida(ls[k])
          THEN /\ vendas' = [k \in 1..Len(ls) |->
                                Venda(ls[k][1].num, ls[k][2].num,
                                      ls[k][3].num, ls[k][4].num)]
               /\ pc' = "calc_necessidades"
               /\ UNCHANGED abertos
          ELSE /\ pc' = "erro"
               /\ abertos' = abertos \ Entradas
               /\ UNCHANGED vendas
    /\ UNCHANGED <<produtos, necessidades, divergencias, vendas_por_canal,
                   gerados, arquivos, pendentes, cursor>>
    /\ UNCHANGED <<chamados, tipo_senha, tamanho_senha, senha>>

\* necessidades = _NecessidadeTransferencia.multigerar(produtos, vendas):
\* both sorted() calls run now, the records are built when iterated.
CalcNecessidades ==
    /\ pc = "calc_necessidades"
    /\ pendentes' = vendas_produtos_ordem_original(produtos, vendas)
    /\ pc' = "calc_divergencias"
    /\ UNCHANGED <<produtos, vendas, necessidades, divergencias,
                   vendas_por_canal, gerados, arquivos, abertos, cursor>>
    /\ chamados' = chamados \cup {"necessidades"}
    /\ UNCHANGED varsSenha

\* divergencias = _Divergencia.multigerar(produtos, vendas): a generator,
\* nothing is scanned yet.
CalcDivergencias ==
    /\ pc = "calc_divergencias"
    /\ cursor' = 0
    /\ pc' = "calc_vendas_por_canal"
    /\ UNCHANGED <<produtos, vendas, necessidades, divergencias,
                   vendas_por_canal, gerados, arquivos, abertos, pendentes>>
    /\ chamados' = chamados \cup {"divergencias"}
    /\ UNCHANGED varsSenha

\* vendas_por_canal = _QtdVendasPorCanal.multigerar(vendas): a list.
CalcVendasPorCanal ==
    /\ pc = "calc_vendas_por_canal"
    /\ vendas_por_canal' = QtdVendasPorCanal_multigerar(vendas)
    /\ gerados' = gerados \cup {"vendas_por_canal"}
    /\ pc' = "retornar"
    /\ UNCHANGED <<produtos, vendas, necessidades, divergencias, arquivos,
                   abertos, pendentes, cursor>>
    /\ chamados' = chamados \cup {"vendas_por_canal"}
    /\ UNCHANGED varsSenha

\* Variant: the inputs are opened without a with block and stay open.
Retornar_sem_fechar ==
    /\ pc = "retornar"
    /\ pc' = "salvar_necessidades"
    /\ UNCHANGED <<produtos, vendas, necessidades, divergencias,
                   vendas_por_canal, gerados, arquivos, abertos, pendentes,
                   cursor>>
    /\ UNCHANGED <<chamados, tipo_senha, tamanho_senha, senha>>

\* return _Resultado(...) leaves the with block, which closes both inputs.
Retornar ==
    /\ pc = "retornar"
    /\ abertos' = abertos \ Entradas
    /\ pc' = "salvar_necessidades"
    /\ UNCHANGED <<produtos, vendas, necessidades, divergencias,
                   vendas_por_canal, gerados, arquivos, pendentes, cursor>>
    /\ UNCHANGED <<chamados, tipo_senha, tamanho_senha, senha>>

\* _salvar_necessidades: open('w') and the header.
AbrirTransferencias ==
    /\ pc = "salvar_necessidades"
    /\ abertos' = abertos \cup {CAMINHO_ARQUIVO_TRANSFERENCIAS}
    /\ arquivos' = [arquivos EXCEPT ![CAMINHO_ARQUIVO_TRANSFERENCIAS] =
                       Arquivo(<<Linha("cabecalho", <<>>)>>)]
    /\ pc' = "escrever_necessidades"
    /\ UNCHANGED <<produtos, vendas, necessidades, divergencias,
                   vendas_por_canal, gerados, pendentes, cursor>>
    /\ UNCHANGED <<chamados, tipo_senha, tamanho_senha, senha>>

\* for n in necessidades: the generator builds the next record and the
\* loop writes its line; when it is exhausted the file is closed.
EscreverNecessidade ==
    /\ pc = "escrever_necessidades"
    /\ IF pendentes # <<>>
       THEN LET n == NecessidadeTransferencia(Head(pendentes))
            IN /\ necessidades' = Append(necessidades, n)
               /\ pendentes' = Tail(pendentes)
               /\ arquivos' =
                      [arquivos EXCEPT ![CAMINHO_ARQUIVO_TRANSFERENCIAS].linhas
                           = Append(@, Linha("necessidade", <<n>>))]
               /\ UNCHANGED <<abertos, gerados, pc>>
       ELSE /\ abertos' = abertos \ {CAMINHO_ARQUIVO_TRANSFERENCIAS}
            /\ gerados' = gerados \cup {"necessidades"}
            /\ pc' = "salvar_divergencias"
            /\ UNCHANGED <<necessidades, pendentes, arquivos>>
    /\ UNCHANGED <<produtos, vendas, divergencias, vendas_por_canal, cursor>>
    /\ UNCHANGED <<chamados, tipo_senha, tamanho_senha, senha>>

\* _salvar_divergencias: open('w').
AbrirDivergencias ==
    /\ pc = "salvar_divergencias"
    /\ abertos' = abertos \cup {CAMINHO_ARQUIVO_DIVERGENCIAS}
    /\ arquivos' = [arquivos EXCEPT ![CAMINHO_ARQUIVO_DIVERGENCIAS] =
                       Arquivo(<<>>)]
    /\ pc' = "escrever_divergencias"
    /\ UNCHANGED <<produtos, vendas, necessidades, divergencias,
                   vendas_por_canal, gerados, pendentes, cursor>>
    /\ UNCHANGED <<chamados, tipo_senha, tamanho_senha, senha>>

\* for divergencia in divergencias: the generator scans the sales from
\* where it stopped up to the next flagged one and the loop writes its
\* line; when the sales are exhausted the file is closed.
EscreverDivergencia ==
    /\ pc = "escrever_divergencias"
    /\ LET flagradas ==
               {i \in (cursor + 1)..Len(vendas) :
                   s_produto(produtos, vendas[i])
                       \/ ~is_confirmada(vendas[i].situacao)}
       IN IF flagradas # {}
          THEN LET i == CHOOSE i \in flagradas : \A j \in flagradas : i <= j
                   d == Divergencia(produtos, vendas[i], i)
               IN /\ divergencias' = Append(divergencias, d)
                  /\ cursor' = i
                  /\ arquivos' =
                         [arquivos EXCEPT
                              ![CAMINHO_ARQUIVO_DIVERGENCIAS].linhas
                                  = Append(@, Linha("divergencia", <<d>>))]
                  /\ UNCHANGED <<abertos, gerados, pc>>
          ELSE /\ cursor' = Len(vendas)
               /\ abertos' = abertos \ {CAMINHO_ARQUIVO_DIVERGENCIAS}
               /\ gerados' = gerados \cup {"divergencias"}
               /\ pc' = "salvar_vendas_por_canal"
               /\ UNCHANGED <<divergencias, arquivos>>
    /\ UNCHANGED <<produtos, vendas, necessidades, vendas_por_canal,
                   pendentes>>
    /\ UNCHANGED <<chamados, tipo_senha, tamanho_senha, senha>>

\* _salvar_vendas_por_canal: open('w') and the two header writes.
AbrirVendasPorCanal ==
    /\ pc = "salvar_vendas_por_canal"
    /\ abertos' = abertos \cup {CAMINHO_ARQUIVO_VENDAS_POR_CANAL}
    /\ arquivos' = [arquivos EXCEPT ![CAMINHO_ARQUIVO_VENDAS_POR_CANAL] =
                       Arquivo(<<Linha("titulo", <<>>),
                                 Linha("colunas", <<>>)>>)]
    /\ pc' = "escrever_vendas_por_canal"
    /\ UNCHANGED <<produtos, vendas, necessidades, divergencias,
                   vendas_por_canal, gerados, pendentes, cursor>>
    /\ UNCHANGED <<chamados, tipo_senha, tamanho_senha, senha>>

\* for vpc in vendas_por_canal: the list is already built; its lines are
\* written and the file is closed, which ends _main.
EscreverVendasPorCanal ==
    /\ pc = "escrever_vendas_por_canal"
    /\ arquivos' =
           [arquivos EXCEPT ![CAMINHO_ARQUIVO_VENDAS_POR_CANAL].linhas =
                @ \o [k \in 1..Len(vendas_por_canal) |->
                         Linha("canal", <<vendas_por_canal[k]>>)]]
    /\ abertos' = abertos \ {CAMINHO_ARQUIVO_VENDAS_POR_CANAL}
    /\ pc' = "fim"
    /\ UNCHANGED <<produtos, vendas, necessidades, divergencias,
                   vendas_por_canal, gerados, pendentes, cursor>>
    /\ UNCHANGED <<chamados, tipo_senha, tamanho_senha, senha>>

NextMain ==
    \/ GarantirArquivos
    \/ AbrirEntradas
    \/ LerProdutos
    \/ LerVendas
    \/ CalcNecessidades
    \/ CalcDivergencias
    \/ CalcVendasPorCanal
    \/ Retornar
    \/ AbrirTransferencias
    \/ EscreverNecessidade
    \/ AbrirDivergencias
    \/ EscreverDivergencia
    \/ AbrirVendasPorCanal
    \/ EscreverVendasPorCanal

SpecMain == InitMain /\ [][NextMain]_vars

\* The pipeline that ran to the end has produced what the calculators
\* return on the loaded sequences.
ResultadoCompleto ==
    pc = "fim" =>
        /\ necessidades = NecessidadeTransferencia_multigerar(produtos, vendas)
        /\ divergencias = Divergencia_multigerar(produtos, vendas)
        /\ vendas_por_canal = QtdVendasPorCanal_multigerar(vendas)

(***************************************************************************)
(* C9.  When loading fails, because an input file is missing or a row is   *)
(* malformed (column count, non-integer field, unmapped status or channel  *)
(* code), no output file is ever opened, created or modified.              *)
(***************************************************************************)
CampoInteiro(c) == DOMAIN c = {"num"}

LinhaProdutoMalFormada(l) ==
    Len(l) # 3 \/ \E j \in 1..Len(l) : ~CampoInteiro(l[j])

LinhaVendaMalFormada(l) ==
    \/ Len(l) # 4
    \/ \E j \in 1..Len(l) : ~CampoInteiro(l[j])
    \/ l[3].num \notin {100, 102, 135, 190, 999}
    \/ l[4].num \notin {1, 2, 3, 4}

CargaFalha ==
    \/ ~arquivos["produtos.txt"].existe
    \/ ~arquivos["vendas.txt"].existe
    \/ \E k \in 1..Len(arquivos["produtos.txt"].linhas) :
           LinhaProdutoMalFormada(arquivos["produtos.txt"].linhas[k])
    \/ \E k \in 1..Len(arquivos["vendas.txt"].linhas) :
           LinhaVendaMalFormada(arquivos["vendas.txt"].linhas[k])

SaidaIntocada(f) ==
    /\ f \notin abertos
    /\ arquivos[f].existe => arquivos[f].linhas = <<LinhaAnterior>>

C9_FalhaDeCargaNaoTocaSaidas ==
    CargaFalha =>
        /\ \A f \in {"transfere.txt", "divergencias.txt", "totcanais.txt"} :
               SaidaIntocada(f)
        /\ pc \notin {"salvar_necessidades", "escrever_necessidades",
                      "salvar_divergencias", "escrever_divergencias",
                      "salvar_vendas_por_canal", "escrever_vendas_por_canal",
                      "fim"}

C9_Witness ==
    /\ pc = "erro"
    /\ Len(produtos) = 2
    /\ Len(arquivos["vendas.txt"].linhas) = 2
    /\ ~LinhaVendaMalFormada(arquivos["vendas.txt"].linhas[1])
    /\ LinhaVendaMalFormada(arquivos["vendas.txt"].linhas[2])
    /\ abertos = {}
    /\ \A f \in {"transfere.txt", "divergencias.txt", "totcanais.txt"} :
           arquivos[f] = Arquivo(<<LinhaAnterior>>)

(***************************************************************************)
(* C11.  Every emitted TransferNeed has                                    *)
(*   stockAfterSales = stockQtyCO - totalSoldQty   (negative allowed) and  *)
(*   rawNeed = max(minQtyCO - stockAfterSales, 0),                         *)
(* so rawNeed >= 0 and transferQty >= 0 whatever the sign of the inputs,   *)
(* and the abs() around the max never changes the value.                   *)
(***************************************************************************)
C11_CamposDerivados ==
    GerouNec =>
        \A k \in 1..Len(necessidades) :
            LET n == necessidades[k]
                falta == n.qtd_min_produto_co - n.qtd_estoque_pos_vendas
            IN /\ n.qtd_estoque_pos_vendas = n.qtd_produto_co - n.qtd_vendas
               /\ n.qtd_necessidade = IF falta > 0 THEN falta ELSE 0
               /\ n.qtd_necessidade >= 0
               /\ n.qtd_transf_arm_co >= 0

\* One run with a record whose stock after sales is negative (need above
\* zero) and a record whose minimum is below the stock after sales (need 0).
C11_Witness ==
    /\ GerouNec
    /\ \E k \in 1..Len(necessidades) :
           /\ necessidades[k].qtd_estoque_pos_vendas < 0
           /\ necessidades[k].qtd_necessidade > 0
    /\ \E k \in 1..Len(necessidades) :
           /\ necessidades[k].qtd_min_produto_co
                  < necessidades[k].qtd_estoque_pos_vendas
           /\ necessidades[k].qtd_necessidade = 0
    /\ \E k \in 1..Len(necessidades) : necessidades[k].qtd_vendas < 0

(***************************************************************************)
(* C12.  As stated: no input or output file is open while one of the       *)
(* three calculators is invoked or while its result records are being      *)
(* computed.  The invocations are the steps taken at calc_necessidades,    *)
(* calc_divergencias and calc_vendas_por_canal; the records of the two     *)
(* generators are computed by the steps of the write loops.                *)
(***************************************************************************)
Invocando ==
    pc \in {"calc_necessidades", "calc_divergencias", "calc_vendas_por_canal"}

ComputandoRegistros ==
    \/ pc = "escrever_necessidades" /\ pendentes # <<>>
    \/ pc = "escrever_divergencias" /\ cursor < Len(vendas)

C12_NenhumArquivoAbertoNoCalculo ==
    (Invocando \/ ComputandoRegistros) => abertos = {}

\* C12 as amended: both input files are open while the three calculators
\* are invoked and are closed when _gerar_resultado returns; transfere.txt
\* is the one open file while the TransferNeed records are computed and
\* divergencias.txt the one open file while the Divergence records are
\* computed; no input is open together with an output, at most one output
\* is open at a time, and between the steps of the pipeline no file is open.
C12_ArquivosAbertosPorEtapa ==
    /\ (Invocando \/ pc = "retornar") => abertos = Entradas
    /\ pc \in {"ler_produtos", "ler_vendas"} => abertos = Entradas
    /\ pc = "escrever_necessidades"
           => abertos = {CAMINHO_ARQUIVO_TRANSFERENCIAS}
    /\ pc = "escrever_divergencias"
           => abertos = {CAMINHO_ARQUIVO_DIVERGENCIAS}
    /\ pc = "escrever_vendas_por_canal"
           => abertos = {CAMINHO_ARQUIVO_VENDAS_POR_CANAL}
    /\ pc \in {"inicio", "abrir", "sem_arquivos", "erro",
                "salvar_necessidades", "salvar_divergencias",
                "salvar_vendas_por_canal", "fim"} => abertos = {}
    /\ \/ abertos \subseteq Entradas
       \/ abertos \subseteq Saidas /\ Cardinality(abertos) <= 1

\* The divergence loop is under way with divergencias.txt open: records of
\* both generators have been computed, each while its output file was open.
C12_Witness ==
    /\ pc = "escrever_divergencias"
    /\ ComputandoRegistros
    /\ abertos = {CAMINHO_ARQUIVO_DIVERGENCIAS}
    /\ necessidades # <<>>
    /\ divergencias # <<>>
    /\ arquivos[CAMINHO_ARQUIVO_TRANSFERENCIAS].existe

(***************************************************************************)
(* C13.  The calculators never modify the loaded Product and Sale          *)
(* sequences, and whatever the order of the three calls and however the    *)
(* consumption of the two generators is interleaved with them, the records *)
(* produced so far are the first records of the sequential run and the     *)
(* finished results are the three sequences of the sequential run: what    *)
(* each calculator returns on the loaded sequences, fully consumed.        *)
(***************************************************************************)
Prefixo(parcial, completo) ==
    /\ Len(parcial) <= Len(completo)
    /\ parcial = SubSeq(completo, 1, Len(parcial))

ResultadosDaOrdemSequencial ==
    LET ns == NecessidadeTransferencia_multigerar(produtos, vendas)
        ds == Divergencia_multigerar(produtos, vendas)
    IN /\ Prefixo(necessidades, ns)
       /\ GerouNec => necessidades = ns
       /\ Prefixo(divergencias, ds)
       /\ GerouDiv => divergencias = ds
       /\ GerouCanal => vendas_por_canal = QtdVendasPorCanal_multigerar(vendas)

C13_QualquerOrdem ==
    /\ []ResultadosDaOrdemSequencial
    /\ [][UNCHANGED <<produtos, vendas>>]_vars

\* An order the sequential run never takes: the divergencias are consumed
\* to the end and the necessidades half-way before the totals per channel
\* are asked for.
C13_Witness ==
    /\ GerouDiv
    /\ divergencias # <<>>
    /\ necessidades # <<>>
    /\ pendentes # <<>>
    /\ "vendas_por_canal" \notin chamados

(***************************************************************************)
(* senhas.py.  A character is its code point, as ord() and chr() relate    *)
(* them; a password is the sequence of its characters.                     *)
(***************************************************************************)
MaxTamanho == 4
MaxLetras == 2

\* _ComponentesSenha(IntFlag): auto() gives the powers of two.
Algarismos == 1
Maiusculas == 2
Minusculas == 4
Especiais == 8

\* The flags in the order gerar tests them.
ComponentesSenha == <<Algarismos, Maiusculas, Minusculas, Especiais>>

Numerica == "a"
Alfabetica == "b"
Alfanumerica1 == "c"
Alfanumerica2 == "d"
Geral == "e"

TipoSenha == {Numerica, Alfabetica, Alfanumerica1, Alfanumerica2, Geral}

\* _TipoSenha.__componentes: the flags or-ed together, as a set of flags.
componentes(tipo) ==
    CASE tipo = Numerica -> {Algarismos}
      [] tipo = Alfabetica -> {Maiusculas, Minusculas}
      [] tipo = Alfanumerica1 -> {Algarismos, Maiusculas}
      [] tipo = Alfanumerica2 -> {Algarismos, Maiusculas, Minusculas}
      [] tipo = Geral -> {Algarismos, Maiusculas, Minusculas, Especiais}

\* The string '-_:@#$&?' of choice(), by code point.
ESPECIAIS == <<45, 95, 58, 64, 35, 36, 38, 63>>

\* randint(lo, hi): every integer from lo to hi, both included.
RandInt(lo, hi) == [k \in 1..(hi - lo + 1) |-> lo + k - 1]

\* The outcomes of the draw gerar makes for a flag: '0'..'9', 'A'..'Z',
\* 'a'..'z', or a character of ESPECIAIS.
Sorteio(flag) ==
    CASE flag = Algarismos -> RandInt(48, 57)
      [] flag = Maiusculas -> RandInt(65, 90)
      [] flag = Minusculas -> RandInt(97, 122)
      [] flag = Especiais -> ESPECIAIS

\* The flags that are set, in the order gerar tests them.
flags(comps) == SelectSeq(ComponentesSenha, LAMBDA f : f \in comps)

\* _ComponentesSenha.gerar: one draw per flag that is set, in the order of
\* the tests; each element is the set of characters the draw may yield.
\* The characters a draw for a flag may yield: every outcome of Sorteio.
Caracteres ==
    [f \in {Algarismos, Maiusculas, Minusculas, Especiais} |->
        {Sorteio(f)[j] : j \in 1..Len(Sorteio(f))}]

gerar(comps) ==
    LET fs == flags(comps)
    IN [k \in 1..Len(fs) |-> Caracteres[fs[k]]]

\* The rearrangements of a list of n items, as maps of positions.
Permutacoes ==
    [n \in 0..MaxTamanho |->
        {q \in [1..n -> 1..n] : \A i, j \in 1..n : q[i] = q[j] => i = j}]

\* shuffle(senha): any rearrangement of the list.
Shuffle(s) == {[i \in 1..Len(s) |-> s[q[i]]] : q \in Permutacoes[Len(s)]}

\* The draws of a letter gerar_senha(tamanho) makes for a type.
Letras(tipo, tamanho) ==
    LET fs == flags(componentes(tipo))
    IN Cardinality({p \in 0..(tamanho - 1) :
                       fs[(p % Len(fs)) + 1] \in {Maiusculas, Minusculas}})

\* estqop.py is not running.
SemEstoque ==
    /\ produtos = <<>>
    /\ vendas = <<>>
    /\ necessidades = <<>>
    /\ divergencias = <<>>
    /\ vendas_por_canal = <<>>
    /\ gerados = {}
    /\ arquivos = [f \in Entradas \cup Saidas |-> Ausente]
    /\ abertos = {}
    /\ pendentes = <<>>
    /\ cursor = 0
    /\ chamados = {}

\* tipo_senha.gerar_senha(tamanho_senha) is entered; _main has made the
\* size non-negative with abs().  The calls followed are those of at most
\* MaxTamanho characters of which at most MaxLetras are letters.
InitSenha ==
    /\ tipo_senha \in TipoSenha
    /\ tamanho_senha \in 0..MaxTamanho
    /\ Letras(tipo_senha, tamanho_senha) <= MaxLetras
    /\ senha = <<>>
    /\ pc = "gerar_senha"
    /\ SemEstoque

\* Variant: the two loops of the generator are nested the other way round,
\* every flag running tamanho times before the next one.
GerarCaractere_lacos_trocados ==
    /\ pc = "gerar_senha"
    /\ LET rodada == gerar(componentes(tipo_senha))
           p == Len(senha)
       IN /\ p < tamanho_senha
          /\ p < tamanho_senha * Len(rodada)
          /\ \E char \in rodada[(p \div tamanho_senha) + 1] :
                 senha' = Append(senha, char)
    /\ UNCHANGED <<tipo_senha, tamanho_senha, pc>>
    /\ UNCHANGED varsEstoque

\* islice(..., tamanho) takes the next character of the generator
\* (char for _ in range(tamanho) for char in componentes.gerar()): item p
\* of the stream is yield p mod k of round p div k, k being the number of
\* flags, and the stream ends after tamanho rounds.
GerarCaractere ==
    /\ pc = "gerar_senha"
    /\ LET rodada == gerar(componentes(tipo_senha))
           p == Len(senha)
       IN /\ p < tamanho_senha
          /\ p < tamanho_senha * Len(rodada)
          /\ \E char \in rodada[(p % Len(rodada)) + 1] :
                 senha' = Append(senha, char)
    /\ UNCHANGED <<tipo_senha, tamanho_senha, pc>>
    /\ UNCHANGED varsEstoque

\* islice stops (tamanho items taken or the generator exhausted), list()
\* returns, shuffle(senha) rearranges it and ''.join(senha) is returned.
Embaralhar ==
    /\ pc = "gerar_senha"
    /\ LET rodada == gerar(componentes(tipo_senha))
       IN \/ Len(senha) = tamanho_senha
          \/ Len(senha) = tamanho_senha * Len(rodada)
    /\ senha' \in Shuffle(senha)
    /\ pc' = "senha_gerada"
    /\ UNCHANGED <<tipo_senha, tamanho_senha>>
    /\ UNCHANGED varsEstoque

NextSenha == GerarCaractere \/ Embaralhar

SpecSenha == InitSenha /\ [][NextSenha]_vars

(***************************************************************************)
(* C14.  For every password type, every tamanho >= 0 and every outcome of  *)
(* the draws and of the shuffle, the password gerar_senha returns has      *)
(* exactly tamanho characters, each one a character of a class of the      *)
(* type (digits, uppercase, lowercase, the specials -_:@#$&?), and when    *)
(* tamanho is at least the number of classes of the type every class of    *)
(* the type occurs in it.                                                  *)
(***************************************************************************)
Digitos == 48..57
LetrasMaiusculas == 65..90
LetrasMinusculas == 97..122
SimbolosEspeciais == {45, 95, 58, 64, 35, 36, 38, 63}

ClassesDoTipo(tipo) ==
    CASE tipo = "a" -> {Digitos}
      [] tipo = "b" -> {LetrasMaiusculas, LetrasMinusculas}
      [] tipo = "c" -> {Digitos, LetrasMaiusculas}
      [] tipo = "d" -> {Digitos, LetrasMaiusculas, LetrasMinusculas}
      [] tipo = "e" -> {Digitos, LetrasMaiusculas, LetrasMinusculas,
                        SimbolosEspeciais}

C14_SenhaDoTipo ==
    pc = "senha_gerada" =>
        LET classes == ClassesDoTipo(tipo_senha)
        IN /\ Len(senha) = tamanho_senha
           /\ \A i \in 1..Len(senha) : \E cl \in classes : senha[i] \in cl
           /\ tamanho_senha >= Cardinality(classes)
                  => \A cl \in classes :
                         \E i \in 1..Len(senha) : senha[i] \in cl

\* A returned password of type Geral of four characters, shuffled: it
\* starts with a special and ends with a digit, the reverse of the order
\* in which the characters were drawn.
C14_Witness ==
    /\ pc = "senha_gerada"
    /\ tipo_senha = "e"
    /\ tamanho_senha = 4
    /\ senha[1] \in SimbolosEspeciais
    /\ senha[4] \in Digitos

=============================================================================
